---- MODULE Spec2Model ----
(***************************************************************************)
(* A model of heritage_oodb_sim.py: the SimpleOODB store (a shelve file    *)
(* opened with writeback=True, seven collections and the by_title index)   *)
(* and the Artifact resolvers current_version, is_on_loan, display_status. *)
(*                                                                         *)
(* Representation.                                                         *)
(*  - A Python str is a sequence of one-character strings, so that lower() *)
(*    and the substring test and the lexicographic order used by sorted()  *)
(*    are computed, not assumed.                                           *)
(*  - None is the empty sequence <<>> and a present value v is <<v>>       *)
(*    (what get() returns, and the Optional material field).               *)
(*  - A Python dict is the sequence of its items [k |-> key, v |-> value]  *)
(*    in insertion order (a dict iterates in insertion order, and          *)
(*    overwriting a key keeps its place).                                  *)
(*  - Records carry the fields the code reads; each collection holds       *)
(*    records of its own entity type, and the indexes collection holds     *)
(*    dicts.                                                               *)
(***************************************************************************)
EXTENDS Integers, Sequences, FiniteSets, TLC

VARIABLES
    shelf,    \* self._shelf as the program sees it: collection name -> dict
    disk,     \* what the backing file holds: collection name -> dict
    isOpen,   \* FALSE once close() has run
    ret,      \* the last call: its name, its arguments, what it returned or raised
    hist      \* history: recent = lower-cased title -> key of the latest
              \* put('artifacts', ...) with that title; indexPut = some put
              \* targeted the indexes collection

vars == <<shelf, disk, isOpen, ret, hist>>

(***************************************************************************)
(* Bounds of the model.                                                    *)
(***************************************************************************)
\* the longest versions list of an inspected artifact
MaxVersions == 3
\* the longest loans / conservation_records list of an inspected artifact
MaxRefs == 2
\* the most entries the store holds over all its collections
MaxEntries == 2

(***************************************************************************)
(* Python str: characters, lower(), "in", and the order sorted() uses.     *)
(***************************************************************************)
Ord(c) ==
    CASE c = "0" -> 48 [] c = "1" -> 49 [] c = "2" -> 50 [] c = "3" -> 51
      [] c = "A" -> 65 [] c = "B" -> 66 [] c = "O" -> 79
      [] c = "a" -> 97 [] c = "b" -> 98 [] c = "o" -> 111 [] c = "t" -> 116

LowerChar(c) ==
    CASE c = "A" -> "a" [] c = "B" -> "b" [] c = "O" -> "o" [] OTHER -> c

\* str.lower()
Lower(s) == [i \in 1..Len(s) |-> LowerChar(s[i])]

\* sub in s, for two str
Contains(sub, s) ==
    \E i \in 0..(Len(s) - Len(sub)) : SubSeq(s, i + 1, i + Len(sub)) = sub

\* s < t for two str: the first differing character decides, a proper prefix is less
StrLess(s, t) ==
    \E i \in 1..(Len(s) + 1) :
        /\ i <= Len(t)
        /\ \A j \in 1..(i - 1) : s[j] = t[j]
        /\ (i = Len(s) + 1 \/ Ord(s[i]) < Ord(t[i]))

\* SortedLast with the earliest of the items with the greatest key: max(xs, key=...)
RECURSIVE MaxFirst(_, _)
MaxFirst(xs, key) ==
    IF Len(xs) = 1 THEN xs[1]
    ELSE LET m == MaxFirst(SubSeq(xs, 1, Len(xs) - 1), key)
             x == xs[Len(xs)]
         IN IF StrLess(m[key], x[key]) THEN x ELSE m

\* sorted(xs, key=...)[-1] for a non-empty list: sorted() is stable, so among the
\* items with the greatest key the one latest in xs comes last
RECURSIVE SortedLast(_, _)
SortedLast(xs, key) ==
    IF Len(xs) = 1 THEN xs[1]
    ELSE LET m == SortedLast(SubSeq(xs, 1, Len(xs) - 1), key)
             x == xs[Len(xs)]
         IN IF StrLess(xs[Len(xs)][key], m[key]) THEN m ELSE x

(***************************************************************************)
(* Python dict.                                                            *)
(***************************************************************************)
DictKeys(d) == {d[i].k : i \in 1..Len(d)}

\* d.get(key): <<>> for None
DictGet(d, key) ==
    IF key \in DictKeys(d)
    THEN <<d[CHOOSE i \in 1..Len(d) : d[i].k = key].v>>
    ELSE <<>>

\* d[key] = value
DictSet(d, key, value) ==
    IF key \in DictKeys(d)
    THEN [i \in 1..Len(d) |-> IF d[i].k = key THEN [k |-> key, v |-> value] ELSE d[i]]
    ELSE Append(d, [k |-> key, v |-> value])

\* list(d.values())
DictValues(d) == [i \in 1..Len(d) |-> d[i].v]

(***************************************************************************)
(* SimpleOODB.                                                             *)
(***************************************************************************)
Collections ==
    {"artifacts", "digital", "people", "institutions", "loans", "conservations",
     "indexes"}

\* A file nothing has been written to.
EmptyFile == [c \in {} |-> <<>>]

\* _open_db, the file: self._shelf[col] = {} writes each missing collection
\* through to the file at once
OpenDbDisk(file) ==
    [c \in Collections \cup DOMAIN file |-> IF c \in DOMAIN file THEN file[c] ELSE <<>>]

\* _open_db, the shelf: the collections as on file, and by_title added to the
\* cached indexes dict only (writeback=True), not yet to the file
OpenDb(file) ==
    LET s == OpenDbDisk(file)
    IN [s EXCEPT !["indexes"] =
            IF "by_title" \in DictKeys(@) THEN @ ELSE DictSet(@, "by_title", <<>>)]

\* self._shelf.get(collection, {})
ShelfGet(s, collection) == IF collection \in DOMAIN s THEN s[collection] ELSE <<>>

\* get(collection, key) on an open store
GetValue(s, collection, key) == DictGet(ShelfGet(s, collection), key)

\* GetResult with self._shelf[collection] in place of self._shelf.get(collection, {})
GetResultStrict(s, open, collection, key) ==
    IF ~open THEN [val |-> <<>>, err |-> "ValueError"]
    ELSE IF collection \notin DOMAIN s THEN [val |-> <<>>, err |-> "KeyError"]
    ELSE [val |-> DictGet(s[collection], key), err |-> ""]

\* get(collection, key), key not None: what it returns, or what it raises
GetResult(s, open, collection, key) ==
    IF open THEN [val |-> GetValue(s, collection, key), err |-> ""]
    ELSE [val |-> <<>>, err |-> "ValueError"]

\* get(collection): key is None
GetAllResult(s, open, collection) ==
    IF open THEN [val |-> ShelfGet(s, collection), err |-> ""]
    ELSE [val |-> <<>>, err |-> "ValueError"]

\* IndexTitle without lower(): idx[obj.title] = key
IndexTitleRaw(s, key, obj) ==
    LET idx == IF "by_title" \in DictKeys(s["indexes"])
               THEN DictGet(s["indexes"], "by_title")[1]
               ELSE <<>>
    IN [s EXCEPT !["indexes"] = DictSet(@, "by_title", DictSet(idx, obj.title, key))]

\* IndexTitle that starts a new dict: indexes['by_title'] = {title.lower(): key}
IndexTitleFresh(s, key, obj) ==
    [s EXCEPT !["indexes"] = DictSet(@, "by_title", DictSet(<<>>, Lower(obj.title), key))]

\* put, lines 137-138: idx = indexes.setdefault('by_title', {}); idx[title.lower()] = key
IndexTitle(s, key, obj) ==
    LET idx == IF "by_title" \in DictKeys(s["indexes"])
               THEN DictGet(s["indexes"], "by_title")[1]
               ELSE <<>>
    IN [s EXCEPT !["indexes"] =
            DictSet(@, "by_title", DictSet(idx, Lower(obj.title), key))]

\* PutShelf as setdefault: a key already present keeps its record
PutShelfKeepFirst(s, collection, key, obj) ==
    LET s1 == [s EXCEPT ![collection] =
                   IF key \in DictKeys(@) THEN @ ELSE DictSet(@, key, obj)]
    IN IF collection = "artifacts" THEN IndexTitle(s1, key, obj) ELSE s1

\* put, lines 135-138: the shelf after put(collection, key, obj), collection present
PutShelf(s, collection, key, obj) ==
    LET s1 == [s EXCEPT ![collection] = DictSet(@, key, obj)]
    IN IF collection = "artifacts" THEN IndexTitle(s1, key, obj) ELSE s1

\* MaterialMatches without lower() on the stored material
MaterialMatchesCased(a, material) ==
    /\ a.material # <<>>
    /\ a.material[1] # <<>>
    /\ Contains(Lower(material), a.material[1])

\* query_artifacts_by_material: a.material and material.lower() in a.material.lower()
MaterialMatches(a, material) ==
    /\ a.material # <<>>
    /\ a.material[1] # <<>>
    /\ Contains(Lower(material), Lower(a.material[1]))

\* query_artifacts_by_material, the comprehension over the values xs
RECURSIVE FilterMaterial(_, _)
FilterMaterial(xs, material) ==
    IF xs = <<>> THEN <<>>
    ELSE LET rest == FilterMaterial(Tail(xs), material)
         IN IF MaterialMatches(Head(xs), material) THEN <<Head(xs)>> \o rest ELSE rest

QueryArtifactsByMaterial(s, material) ==
    FilterMaterial(DictValues(s["artifacts"]), material)

\* query_conservation_by_restorer, the comprehension over the values xs
RECURSIVE FilterRestorer(_, _)
FilterRestorer(xs, restorer_id) ==
    IF xs = <<>> THEN <<>>
    ELSE LET rest == FilterRestorer(Tail(xs), restorer_id)
         IN IF Head(xs).restorer_id = restorer_id THEN <<Head(xs)>> \o rest ELSE rest

QueryConservationByRestorer(s, restorer_id) ==
    FilterRestorer(DictValues(s["conservations"]), restorer_id)

(***************************************************************************)
(* Artifact: the resolvers.  The store argument is either the SimpleOODB   *)
(* object ("oodb") or its shelf, store._shelf ("shelf"), which is what     *)
(* demo passes (line 174).                                                 *)
(***************************************************************************)
StoreKinds == {"oodb", "shelf"}

\* store.get(name, {}): on the shelf, Shelf.get(key, default), the collection or
\* {}; on the SimpleOODB, get(collection=name, key={}), which looks the dict {}
\* up as a key of the collection and raises TypeError (unhashable type)
StoreGetDefault(s, open, kind, name) ==
    IF ~open THEN [val |-> <<>>, err |-> "ValueError"]
    ELSE IF kind = "oodb" THEN [val |-> <<>>, err |-> "TypeError"]
    ELSE [val |-> ShelfGet(s, name), err |-> ""]

\* current_version()
CurrentVersion(a) ==
    IF a.versions = <<>> THEN <<>> ELSE <<SortedLast(a.versions, "timestamp")>>

\* is_on_loan, the loop from position i on
RECURSIVE LoanScan(_, _, _, _, _)
LoanScan(a, s, open, kind, i) ==
    IF i > Len(a.loans) THEN [on_loan |-> FALSE, loan |-> <<>>, err |-> ""]
    ELSE LET col == StoreGetDefault(s, open, kind, "loans")
         IN IF col.err # "" THEN [on_loan |-> FALSE, loan |-> <<>>, err |-> col.err]
            ELSE LET loan == DictGet(col.val, a.loans[i])
                 IN IF loan # <<>> /\ loan[1].status = "ACTIVE"
                    THEN [on_loan |-> TRUE, loan |-> loan, err |-> ""]
                    ELSE LoanScan(a, s, open, kind, i + 1)

\* is_on_loan(store)
IsOnLoanResult(a, s, open, kind) == LoanScan(a, s, open, kind, 1)

\* display_status, lines 93-94: the conservation records that resolve, in list
\* order, from position i on
RECURSIVE ResolvedConservations(_, _, _)
ResolvedConservations(a, col, i) ==
    IF i > Len(a.conservation_records) THEN <<>>
    ELSE DictGet(col, a.conservation_records[i]) \o ResolvedConservations(a, col, i + 1)

\* display_status, lines 91-96: last_conservation
LastConservation(a, s, open, kind) ==
    IF a.conservation_records = <<>> THEN [val |-> <<>>, err |-> ""]
    ELSE LET col == StoreGetDefault(s, open, kind, "conservations")
         IN IF col.err # "" THEN [val |-> <<>>, err |-> col.err]
            ELSE LET crs == ResolvedConservations(a, col.val, 1)
                 IN [val |-> IF crs = <<>> THEN <<>> ELSE <<SortedLast(crs, "date")>>,
                     err |-> ""]

\* display_status(store)
DisplayStatusResult(a, s, open, kind) ==
    LET onloan == IsOnLoanResult(a, s, open, kind)
        cv == CurrentVersion(a)
        lc == LastConservation(a, s, open, kind)
        err == IF onloan.err # "" THEN onloan.err ELSE lc.err
    IN IF err # "" THEN [val |-> <<>>, err |-> err]
       ELSE [val |-> <<[artifact_id |-> a.artifact_id,
                        title |-> a.title,
                        on_loan |-> onloan.on_loan,
                        loan_ref |-> IF onloan.loan # <<>>
                                     THEN <<onloan.loan[1].loan_id>> ELSE <<>>,
                        current_version |-> IF cv # <<>>
                                            THEN <<cv[1].version_id>> ELSE <<>>,
                        last_conservation |-> IF lc.val # <<>>
                                              THEN <<lc.val[1].record_id>> ELSE <<>>]>>,
             err |-> ""]

\* The number of items written by put: every item of every collection, the
\* by_title item that _open_db creates aside.
RECURSIVE SumLen(_, _)
SumLen(s, cs) ==
    IF cs = {} THEN 0
    ELSE LET c == CHOOSE x \in cs : TRUE IN Len(s[c]) + SumLen(s, cs \ {c})

Entries(s) ==
    SumLen(s, DOMAIN s) - (IF "by_title" \in DictKeys(s["indexes"]) THEN 1 ELSE 0)

(***************************************************************************)
(* The calls.  A call on a closed store raises ValueError('invalid         *)
(* operation on closed shelf') from the shelf before anything is read or   *)
(* written.                                                                *)
(***************************************************************************)
Init ==
    /\ shelf = OpenDb(EmptyFile)
    /\ disk = OpenDbDisk(EmptyFile)
    /\ isOpen = TRUE
    /\ ret = [op |-> "open", err |-> ""]
    /\ hist = [recent |-> <<>>, indexPut |-> FALSE]

\* save(): sync() writes the cached collections back; on a closed shelf the
\* cache is empty and nothing is written
Save ==
    /\ disk' = IF isOpen THEN shelf ELSE disk
    /\ ret' = [op |-> "save", err |-> ""]
    /\ UNCHANGED <<shelf, isOpen, hist>>

\* Close that drops the handle without the sync
CloseNoSync ==
    /\ isOpen' = FALSE
    /\ ret' = [op |-> "close", err |-> ""]
    /\ UNCHANGED <<shelf, disk, hist>>

\* close(): sync, then the handle is closed; a second close() does nothing
Close ==
    /\ disk' = IF isOpen THEN shelf ELSE disk
    /\ isOpen' = FALSE
    /\ ret' = [op |-> "close", err |-> ""]
    /\ UNCHANGED <<shelf, hist>>

\* get(collection, key), key not None
Get(collection, key) ==
    /\ LET r == GetResult(shelf, isOpen, collection, key)
       IN ret' = [op |-> "get", c |-> collection, k |-> key,
                  val |-> r.val, err |-> r.err]
    /\ UNCHANGED <<shelf, disk, isOpen, hist>>

\* get(collection): key is None
GetAll(collection) ==
    /\ LET r == GetAllResult(shelf, isOpen, collection)
       IN ret' = [op |-> "get_all", c |-> collection, val |-> r.val, err |-> r.err]
    /\ UNCHANGED <<shelf, disk, isOpen, hist>>

\* put(collection, key, obj): self._shelf[collection] raises KeyError for a
\* collection the shelf does not hold; otherwise write, index, save().
\* ret.replaced records what the key held before the call.  The model makes
\* no put that would take the store beyond MaxEntries items.
Put(collection, key, obj) ==
    LET err == IF ~isOpen THEN "ValueError"
               ELSE IF collection \notin DOMAIN shelf THEN "KeyError" ELSE ""
        old == IF err = "" THEN GetValue(shelf, collection, key) ELSE <<>>
    IN /\ err = "" => Entries(PutShelf(shelf, collection, key, obj)) <= MaxEntries
       /\ shelf' = IF err = "" THEN PutShelf(shelf, collection, key, obj) ELSE shelf
       /\ disk' = IF err = "" THEN shelf' ELSE disk
       /\ ret' = [op |-> "put", c |-> collection, k |-> key, obj |-> obj,
                  replaced |-> old, val |-> <<>>, err |-> err]
       /\ hist' = IF err # "" THEN hist
                  ELSE IF collection = "artifacts"
                       THEN [hist EXCEPT !.recent = DictSet(@, Lower(obj.title), key)]
                  ELSE IF collection = "indexes"
                       THEN [hist EXCEPT !.indexPut = TRUE]
                  ELSE hist
       /\ UNCHANGED isOpen

QueryMaterial(material) ==
    /\ ret' = IF isOpen
              THEN [op |-> "query_artifacts_by_material", material |-> material,
                    val |-> QueryArtifactsByMaterial(shelf, material), err |-> ""]
              ELSE [op |-> "query_artifacts_by_material", material |-> material,
                    val |-> <<>>, err |-> "ValueError"]
    /\ UNCHANGED <<shelf, disk, isOpen, hist>>

QueryRestorer(restorer_id) ==
    /\ ret' = IF isOpen
              THEN [op |-> "query_conservation_by_restorer", restorer_id |-> restorer_id,
                    val |-> QueryConservationByRestorer(shelf, restorer_id), err |-> ""]
              ELSE [op |-> "query_conservation_by_restorer", restorer_id |-> restorer_id,
                    val |-> <<>>, err |-> "ValueError"]
    /\ UNCHANGED <<shelf, disk, isOpen, hist>>

\* a.current_version(): sorted() builds a new list, a.versions stays as it is
CurrentVersionCall(a) ==
    /\ ret' = [op |-> "current_version", a |-> a, val |-> CurrentVersion(a),
               versions_after |-> a.versions, err |-> ""]
    /\ UNCHANGED <<shelf, disk, isOpen, hist>>

\* a.is_on_loan(store)
IsOnLoanCall(a, kind) ==
    /\ LET r == IsOnLoanResult(a, shelf, isOpen, kind)
       IN ret' = [op |-> "is_on_loan", a |-> a, store |-> kind,
                  on_loan |-> r.on_loan, loan |-> r.loan, err |-> r.err]
    /\ UNCHANGED <<shelf, disk, isOpen, hist>>

\* a.display_status(store)
DisplayStatusCall(a, kind) ==
    /\ LET r == DisplayStatusResult(a, shelf, isOpen, kind)
       IN ret' = [op |-> "display_status", a |-> a, store |-> kind,
                  val |-> r.val, err |-> r.err]
    /\ UNCHANGED <<shelf, disk, isOpen, hist>>

(***************************************************************************)
(* The records and keys the calls are made with.                           *)
(***************************************************************************)
Artifact(id, title, material, versions, conservation_records, loans) ==
    [artifact_id |-> id, title |-> title, material |-> material,
     versions |-> versions, conservation_records |-> conservation_records,
     loans |-> loans]

Titles == {<<"A", "b">>, <<"a", "B">>, <<"b">>}

\* Artifacts that differ in their title: "Ab" and "aB" differ only in case.
TitledArtifacts == {Artifact("A1", t, <<>>, <<>>, <<>>, <<>>) : t \in Titles}

Statuses == {"PENDING", "ACTIVE", "COMPLETED"}

\* title index dicts written through put('indexes', ...)
IndexDicts == {<<>>, <<[k |-> <<"b">>, v |-> "a2"]>>}

KeysOf(c) ==
    CASE c = "artifacts" -> {"a1"}
      [] c = "digital" -> {"d1"}
      [] c = "people" -> {"p1"}
      [] c = "institutions" -> {"i1"}
      [] c = "loans" -> {"l1"}
      [] c = "conservations" -> {"c1"}
      [] c = "indexes" -> {"by_title", "aux"}
      [] OTHER -> {"x1"}

RecordsOf(c) ==
    CASE c = "artifacts" ->
            {Artifact("A1", t, <<>>, <<>>, <<>>, <<>>) : t \in {<<"A", "b">>, <<"b">>}}
      [] c = "digital" -> {[surrogate_id |-> "D1", file_ref |-> "f.tif", file_type |-> "tif"]}
      [] c = "people" -> {[person_id |-> "P1", name |-> "Arun", role |-> "Restorer"]}
      [] c = "institutions" -> {[inst_id |-> "I1", name |-> "Metro"]}
      [] c = "loans" -> {[loan_id |-> "L1", status |-> st] : st \in {"ACTIVE", "COMPLETED"}}
      [] c = "conservations" ->
            {[record_id |-> "R1", date |-> <<"1">>, restorer_id |-> "P1"]}
      [] c = "indexes" -> IndexDicts
      [] OTHER -> {[person_id |-> "P1", name |-> "Arun", role |-> "Restorer"]}

\* collection names a caller may pass: the seven, and one the store does not hold
Names == Collections \cup {"nosuch"}

(***************************************************************************)
(* Spec: the store under any sequence of calls, on every collection.       *)
(***************************************************************************)
PutAny == \E c \in Names : \E k \in KeysOf(c) : \E obj \in RecordsOf(c) : Put(c, k, obj)

GetAny == \E c \in Names : \E k \in KeysOf(c) : Get(c, k)

GetAllAny == \E c \in Names : GetAll(c)

QueryMaterialAny == \E m \in {<<"o">>} : QueryMaterial(m)

QueryRestorerAny == \E r \in {"P1"} : QueryRestorer(r)

Next ==
    \/ PutAny
    \/ GetAny
    \/ GetAllAny
    \/ QueryMaterialAny
    \/ QueryRestorerAny
    \/ Save
    \/ Close

Spec == Init /\ [][Next]_vars

(***************************************************************************)
(* SpecIndex: the title index under puts of artifacts with like and        *)
(* unlike titles, puts to the indexes collection and puts elsewhere.       *)
(***************************************************************************)
PutArtifact == \E k \in {"a1", "a2"} : \E a \in TitledArtifacts : Put("artifacts", k, a)

PutIndex == \E k \in {"by_title", "aux"} : \E d \in IndexDicts : Put("indexes", k, d)

PutLoan == \E obj \in RecordsOf("loans") : Put("loans", "l1", obj)

GetIndex == Get("indexes", "by_title")

NextIndex == PutArtifact \/ PutIndex \/ PutLoan \/ GetIndex

SpecIndex == Init /\ [][NextIndex]_vars

(***************************************************************************)
(* Claims about the store.                                                 *)
(***************************************************************************)
PutReturned == ret.op = "put" /\ ret.err = ""

\* C1: right after put(C, k, r) on any of the seven collections, get(C, k)
\* returns r: the record just written, and not the record it replaced.
C1_RoundTrip ==
    (PutReturned /\ ret.c \in Collections) =>
        LET g == GetResult(shelf, isOpen, ret.c, ret.k)
        IN /\ g.err = ""
           /\ g.val = <<ret.obj>>
           /\ (ret.replaced # <<ret.obj>> => g.val # ret.replaced)

\* A put has just replaced a different record under the same key.
C1_Witness ==
    /\ PutReturned
    /\ ret.c = "loans"
    /\ ret.replaced # <<>>
    /\ ret.replaced # <<ret.obj>>

\* C3: on an open store get(collection, key) for a key the collection does not
\* hold, or for a collection the store does not hold, returns None and raises
\* nothing; get(collection) returns the whole dict, the empty dict for a
\* collection that is empty or not held; get changes no collection and no index,
\* in memory or on file.
C3_AbsenceNotError ==
    [][isOpen =>
        /\ (/\ ret'.op = "get"
            /\ (ret'.c \notin DOMAIN shelf \/ ret'.k \notin DictKeys(shelf[ret'.c])))
           => (ret'.val = <<>> /\ ret'.err = "")
        /\ ret'.op = "get_all"
           => /\ ret'.err = ""
              /\ ret'.c \in DOMAIN shelf => ret'.val = shelf[ret'.c]
              /\ (ret'.c \notin DOMAIN shelf \/ shelf[ret'.c] = <<>>) => ret'.val = <<>>
        /\ ret'.op \in {"get", "get_all"} => (shelf' = shelf /\ disk' = disk)
      ]_vars

\* A get on a collection the store does not hold has returned None while the
\* store holds records.
C3_Witness ==
    /\ isOpen
    /\ ret.op = "get"
    /\ ret.c = "nosuch"
    /\ ret.val = <<>>
    /\ ret.err = ""
    /\ shelf["loans"] # <<>>

FailsOnClosed ==
    {"get", "get_all", "put", "query_artifacts_by_material",
     "query_conservation_by_restorer"}

\* C9: once close() has run, every get, put and query raises the closed-store
\* error and reads or writes nothing; close() leaves on file exactly the contents
\* the store had when it was called, the record of every put that returned
\* among them, and they stay as they are.
C9_ClosedStore ==
    [][/\ (~isOpen /\ ret'.op \in FailsOnClosed)
          => (ret'.err = "ValueError" /\ ret'.val = <<>> /\ shelf' = shelf)
       /\ (isOpen /\ ret'.op = "close") => (disk' = shelf /\ ~isOpen')
       /\ (ret'.op = "put" /\ ret'.err = "")
          => GetValue(disk', ret'.c, ret'.k) = <<ret'.obj>>
       /\ ~isOpen => (~isOpen' /\ disk' = disk)
      ]_vars

\* A put has been refused on a closed store whose file holds an earlier put.
C9_Witness ==
    /\ ~isOpen
    /\ ret.op = "put"
    /\ ret.err = "ValueError"
    /\ disk["loans"] # <<>>

(***************************************************************************)
(* Claims about the title index.                                           *)
(***************************************************************************)
\* The lower-cased titles, written out.
Folded(title) ==
    CASE title = <<"A", "b">> -> <<"a", "b">>
      [] title = <<"a", "B">> -> <<"a", "b">>
      [] title = <<"b">> -> <<"b">>

\* indexes.by_title as get('indexes', 'by_title') returns it
ByTitle(s) == GetResult(s, TRUE, "indexes", "by_title").val[1]

\* C2: right after put('artifacts', k, a), indexes.by_title[lower(a.title)] == k.
C2_IndexConsistency ==
    (PutReturned /\ ret.c = "artifacts") =>
        LET g == GetResult(shelf, isOpen, "indexes", "by_title")
        IN /\ g.err = ""
           /\ g.val # <<>>
           /\ DictGet(g.val[1], Folded(ret.obj.title)) = <<ret.k>>

\* An artifact with an upper-case letter in its title has been put under a2
\* after the index was written through put('indexes', ...).
C2_Witness ==
    /\ PutReturned
    /\ ret.c = "artifacts"
    /\ ret.k = "a2"
    /\ ret.obj.title = <<"a", "B">>
    /\ hist.indexPut

\* two dicts hold the same keys with the same values
SameMap(d, e) ==
    /\ DictKeys(d) = DictKeys(e)
    /\ \A t \in DictKeys(d) : DictGet(d, t) = DictGet(e, t)

ValuesAreArtifactKeys(s) ==
    \A i \in 1..Len(ByTitle(s)) : ByTitle(s)[i].v \in DictKeys(s["artifacts"])

\* put('artifacts', ...) leaves the entry of every other title as it was
OtherTitlesKept ==
    (ret'.op = "put" /\ ret'.err = "" /\ ret'.c = "artifacts") =>
        \A t \in DictKeys(ByTitle(shelf)) \ {Folded(ret'.obj.title)} :
            DictGet(ByTitle(shelf'), t) = DictGet(ByTitle(shelf), t)

\* C10 as claimed: under any sequence of puts (1) every value of by_title is a key
\* of artifacts, (2) by_title[t] is the key of the latest put of an artifact whose
\* lower-cased title is t, (3) a put changes the entry of no other title, (4) a
\* put to any collection other than artifacts leaves the index unchanged.
C10_AsClaimed ==
    [][/\ ValuesAreArtifactKeys(shelf')
       /\ SameMap(ByTitle(shelf'), hist'.recent)
       /\ OtherTitlesKept
       /\ (ret'.op = "put" /\ ret'.c # "artifacts") => ByTitle(shelf') = ByTitle(shelf)
      ]_vars

\* C10, amended: (1) and (2) hold as long as no put has targeted the indexes
\* collection, (3) holds of every put to artifacts, and (4) a put to any
\* collection other than artifacts and indexes leaves the index unchanged.
C10_TitleIndex ==
    [][/\ ~hist'.indexPut =>
            (ValuesAreArtifactKeys(shelf') /\ SameMap(ByTitle(shelf'), hist'.recent))
       /\ OtherTitlesKept
       /\ (ret'.op = "put" /\ ret'.c \notin {"artifacts", "indexes"})
            => ByTitle(shelf') = ByTitle(shelf)
      ]_vars

\* With no put to indexes so far, an artifact re-put under a1 with a new title
\* has left the entry of its old title behind: two titles map to a1, and a1
\* holds one artifact.
C10_Witness ==
    /\ ~hist.indexPut
    /\ Len(ByTitle(shelf)) = 2
    /\ \A i \in 1..2 : ByTitle(shelf)[i].v = "a1"
    /\ PutReturned
    /\ ret.c = "artifacts"
    /\ ret.replaced # <<>>

(***************************************************************************)
(* SpecQuery: query_artifacts_by_material over artifacts whose material is *)
(* None, the empty string, or a string with upper-case letters.            *)
(***************************************************************************)
Materials == {<<>>, << <<>> >>, << <<"O", "a">> >>, << <<"b">> >>}

MaterialArtifacts ==
    {Artifact("A1", <<"b">>, m, <<>>, <<>>, <<>>) : m \in Materials}

Queries == {<<>>, <<"o">>, <<"O", "A">>, <<"a", "b">>}

PutMaterialArtifact ==
    \E k \in {"a1", "a2"} : \E a \in MaterialArtifacts : Put("artifacts", k, a)

QueryMaterialAny2 == \E q \in Queries : QueryMaterial(q)

NextQuery == PutMaterialArtifact \/ QueryMaterialAny2

SpecQuery == Init /\ [][NextQuery]_vars

\* how often x occurs in the list xs
Count(xs, x) == Cardinality({i \in 1..Len(xs) : xs[i] = x})

\* sub occurs in s when letters are compared without regard to case
ContainsIgnoringCase(sub, s) ==
    \E off \in 0..(Len(s) - Len(sub)) :
        \A j \in 1..Len(sub) : LowerChar(sub[j]) = LowerChar(s[off + j])

\* the material of a is present (and, with nonEmpty, not the empty string) and
\* contains q
MaterialContains(a, q, nonEmpty) ==
    /\ a.material # <<>>
    /\ nonEmpty => a.material[1] # <<>>
    /\ ContainsIgnoringCase(q, a.material[1])

\* the query has returned each stored artifact whose material contains the
\* argument once per item that holds it, and nothing else; the store is as it was
QueryReturnsExactly(nonEmpty) ==
    (isOpen /\ ret'.op = "query_artifacts_by_material") =>
        /\ ret'.err = ""
        /\ \A x \in MaterialArtifacts :
              Count(ret'.val, x) =
                  IF MaterialContains(x, ret'.material, nonEmpty)
                  THEN Count(DictValues(shelf["artifacts"]), x) ELSE 0
        /\ shelf' = shelf
        /\ disk' = disk

\* C8 as claimed: the query returns exactly the stored artifacts whose material
\* is present and contains the argument, letters compared without regard to
\* case, each once, and changes nothing.
C8_AsClaimed == [][QueryReturnsExactly(FALSE)]_vars

\* C8, amended: the query returns exactly the stored artifacts whose material
\* is present and not the empty string and contains the argument, letters
\* compared without regard to case, each once, and changes nothing.
C8_QueryByMaterial == [][QueryReturnsExactly(TRUE)]_vars

\* The query for "OA" has returned the artifact of material "Oa" alone, out of
\* two stored artifacts, the other of material "" (the empty string).
C8_Witness ==
    /\ ret.op = "query_artifacts_by_material"
    /\ ret.material = <<"O", "A">>
    /\ Len(shelf["artifacts"]) = 2
    /\ Len(ret.val) = 1
    /\ ret.val[1].material = << <<"O", "a">> >>
    /\ \E i \in 1..2 : shelf["artifacts"][i].v.material = << <<>> >>

(***************************************************************************)
(* SpecVersions: current_version on artifacts with every versions list up  *)
(* to MaxVersions long.                                                    *)
(***************************************************************************)
Timestamps == {<<"t">>, <<"t", "1">>, <<"t", "1", "0">>, <<"t", "2">>, <<"t", "3">>}

VersionIds == <<"v1", "v2", "v3", "v4", "v5", "v6">>

VersionLists ==
    UNION {{[i \in 1..n |-> [version_id |-> VersionIds[i], timestamp |-> ts[i]]] :
                ts \in [1..n -> Timestamps]} : n \in 0..MaxVersions}

VersionedArtifacts == {Artifact("A1", <<"b">>, <<>>, vs, <<>>, <<>>) : vs \in VersionLists}

CurrentVersionAny == \E a \in VersionedArtifacts : CurrentVersionCall(a)

NextVersions == CurrentVersionAny

SpecVersions == Init /\ [][NextVersions]_vars

\* s <= t in the lexicographic order of strings
RECURSIVE LexLeq(_, _)
LexLeq(s, t) ==
    IF s = <<>> THEN TRUE
    ELSE IF t = <<>> THEN FALSE
    ELSE IF Ord(Head(s)) < Ord(Head(t)) THEN TRUE
    ELSE IF Ord(Head(s)) > Ord(Head(t)) THEN FALSE
    ELSE LexLeq(Tail(s), Tail(t))

\* C4: current_version returns None for an artifact without versions; otherwise
\* a version of the greatest timestamp in lexicographic order, and of those the
\* one last in the versions list; the versions list is as it was.
C4_CurrentVersion ==
    ret.op = "current_version" =>
        LET vs == ret.a.versions
        IN /\ vs = <<>> => ret.val = <<>>
           /\ vs # <<>> =>
                \E i \in 1..Len(vs) :
                    /\ ret.val = <<vs[i]>>
                    /\ \A j \in 1..Len(vs) : LexLeq(vs[j].timestamp, vs[i].timestamp)
                    /\ \A j \in (i + 1)..Len(vs) : vs[j].timestamp # vs[i].timestamp
           /\ ret.versions_after = vs

\* current_version has returned the third of three versions, which shares the
\* greatest timestamp "t2" with the first, "t10" between them.
C4_Witness ==
    /\ ret.op = "current_version"
    /\ Len(ret.a.versions) = 3
    /\ ret.a.versions[1].timestamp = <<"t", "2">>
    /\ ret.a.versions[2].timestamp = <<"t", "1", "0">>
    /\ ret.a.versions[3].timestamp = <<"t", "2">>
    /\ ret.val = <<ret.a.versions[3]>>

(***************************************************************************)
(* SpecResolver: is_on_loan and display_status over stores that hold loans *)
(* and conservation records, on artifacts whose id lists hold ids that     *)
(* resolve and ids that do not.                                            *)
(***************************************************************************)
LoanRecords == [l1 |-> {[loan_id |-> "L1", status |-> st] : st \in Statuses},
                l2 |-> {[loan_id |-> "L2", status |-> st] : st \in Statuses}]

Dates == {<<"1", "0">>, <<"2">>}

ConservationRecords ==
    [c1 |-> {[record_id |-> "R1", date |-> d, restorer_id |-> "P1"] : d \in Dates},
     c2 |-> {[record_id |-> "R2", date |-> d, restorer_id |-> "P1"] : d \in Dates}]

\* every list of at most MaxRefs ids out of ids
IdLists(ids) == UNION {[1..n -> ids] : n \in 0..MaxRefs}

\* loan ids an artifact may list: lx is the key of no loan
LoanRefs == IdLists({"l1", "l2", "lx"})

\* conservation ids an artifact may list: cx is the key of no record
ConservationRefs == IdLists({"c1", "c2", "cx"})

OneVersion == <<[version_id |-> "v1", timestamp |-> <<"t", "1">>]>>

LoanArtifacts == {Artifact("A1", <<"b">>, <<>>, <<>>, <<>>, ls) : ls \in LoanRefs}

StatusArtifacts ==
    {Artifact("A1", <<"b">>, <<>>, vs, cs, ls) :
        vs \in {<<>>, OneVersion},
        cs \in ConservationRefs,
        ls \in {<<>>, <<"l1">>, <<"lx", "l2">>}}

PutLoanRecord == \E k \in DOMAIN LoanRecords : \E r \in LoanRecords[k] : Put("loans", k, r)

PutConservationRecord ==
    \E k \in DOMAIN ConservationRecords :
        \E r \in ConservationRecords[k] : Put("conservations", k, r)

IsOnLoanAny == \E a \in LoanArtifacts : \E kind \in StoreKinds : IsOnLoanCall(a, kind)

DisplayStatusAny ==
    \E a \in StatusArtifacts : \E kind \in StoreKinds : DisplayStatusCall(a, kind)

NextResolver ==
    \/ PutLoanRecord
    \/ PutConservationRecord
    \/ IsOnLoanAny
    \/ DisplayStatusAny

SpecResolver == Init /\ [][NextResolver]_vars

\* the loan that ids[i] resolves to is ACTIVE
ActiveAt(ids, i) ==
    /\ ids[i] \in DictKeys(shelf["loans"])
    /\ DictGet(shelf["loans"], ids[i])[1].status = "ACTIVE"

\* what the first-match scan of ids yields in the current store
FirstActive(ids) ==
    IF \E i \in 1..Len(ids) : ActiveAt(ids, i)
    THEN LET i == CHOOSE i \in 1..Len(ids) :
                      ActiveAt(ids, i) /\ \A j \in 1..(i - 1) : ~ActiveAt(ids, j)
         IN [on_loan |-> TRUE, loan |-> DictGet(shelf["loans"], ids[i])]
    ELSE [on_loan |-> FALSE, loan |-> <<>>]

IsFirstMatch ==
    /\ ret.err = ""
    /\ ret.on_loan = FirstActive(ret.a.loans).on_loan
    /\ ret.loan = FirstActive(ret.a.loans).loan

\* C5 as claimed: is_on_loan(artifact, store) returns (on loan, L) for L the loan
\* of the earliest id in artifact.loans that resolves to an ACTIVE loan, ids
\* that do not resolve and loans that are not ACTIVE passed over, and
\* (not on loan, None) exactly when no id resolves to an ACTIVE loan.
C5_AsClaimed == ret.op = "is_on_loan" => IsFirstMatch

\* What holds of is_on_loan: the claim, when the store argument is the shelf.
C5_ViaShelf == (ret.op = "is_on_loan" /\ ret.store = "shelf") => IsFirstMatch

\* the record ids of the conservation ids that resolve
ResolvedAt(ids) == {i \in 1..Len(ids) : ids[i] \in DictKeys(shelf["conservations"])}

ConservationAt(ids, i) == DictGet(shelf["conservations"], ids[i])[1]

IsStatusRecord ==
    /\ ret.err = ""
    /\ ret.val # <<>>
    /\ LET st == ret.val[1]
           a == ret.a
           loan == FirstActive(a.loans)
           cv == CurrentVersion(a)
           cs == a.conservation_records
       IN /\ st.artifact_id = a.artifact_id
          /\ st.title = a.title
          /\ st.on_loan = loan.on_loan
          /\ st.loan_ref = (IF loan.on_loan THEN <<loan.loan[1].loan_id>> ELSE <<>>)
          /\ st.current_version = (IF cv = <<>> THEN <<>> ELSE <<cv[1].version_id>>)
          /\ ResolvedAt(cs) = {} => st.last_conservation = <<>>
          /\ ResolvedAt(cs) # {} =>
                \E i \in ResolvedAt(cs) :
                    /\ st.last_conservation = <<ConservationAt(cs, i).record_id>>
                    /\ \A j \in ResolvedAt(cs) :
                          LexLeq(ConservationAt(cs, j).date, ConservationAt(cs, i).date)

\* C6 as claimed: display_status(artifact, store) returns the artifact's id and
\* title, the flag and loan id of is_on_loan, the id of current_version, and the
\* id of the record of greatest date among the conservation ids that resolve
\* (None when none does).
C6_AsClaimed == ret.op = "display_status" => IsStatusRecord

\* What holds of display_status: the claim, when the store argument is the shelf.
C6_ViaShelf == (ret.op = "display_status" /\ ret.store = "shelf") => IsStatusRecord

\* The outcome of demo: with an ACTIVE loan and a conservation record stored,
\* display_status(store._shelf) reports the loan, the version and the record.
C6_DemoOutcome ==
    /\ ret.op = "display_status"
    /\ ret.store = "shelf"
    /\ ret.a.loans = <<"l1">>
    /\ ret.a.conservation_records = <<"c1">>
    /\ ret.val # <<>>
    /\ ret.val[1].on_loan
    /\ ret.val[1].loan_ref = <<"L1">>
    /\ ret.val[1].current_version = <<"v1">>
    /\ ret.val[1].last_conservation = <<"R1">>

\* C7 as claimed: called with the SimpleOODB store, is_on_loan and
\* display_status return a result and raise nothing, whatever the id lists hold.
C7_AsClaimed ==
    (ret.op \in {"is_on_loan", "display_status"} /\ ret.store = "oodb") => ret.err = ""

\* What holds with the SimpleOODB store: the resolvers raise exactly when the
\* list they resolve is not empty.
C7_RaisesOnAnyId ==
    /\ (ret.op = "is_on_loan" /\ ret.store = "oodb")
          => (ret.err = "TypeError" <=> ret.a.loans # <<>>)
    /\ (ret.op = "display_status" /\ ret.store = "oodb")
          => (ret.err = "TypeError"
                <=> (ret.a.loans # <<>> \/ ret.a.conservation_records # <<>>))

====
